---------------------------- MODULE Spec2Model ----------------------------
(***************************************************************************)
(* A model of hw7.py: the fields (Phone, Birthday), Record, AddressBook,   *)
(* the upcoming-birthday computation and the command loop main().          *)
(*                                                                         *)
(* Python values are records tagged with their class in the field cls.     *)
(* A str is a sequence of characters; a character is written as a one      *)
(* character TLA+ string, except SUP2 and TAB below.                       *)
(***************************************************************************)
EXTENDS Integers, Sequences, FiniteSets, TLC

VARIABLES
    heap,        \* the Record objects: id -> Record value, or Free
    data,        \* AddressBook.data, an insertion-ordered dict: Seq of [key, val]
    local,       \* the reference a caller of the classes holds (an id), or None
    last_added,  \* history: name -> the id last passed to add_record, None once deleted
    call,        \* the last operation performed and its arguments
    ret,         \* what that operation returned or raised
    pc,          \* main(): "running", "exited" (break) or "crashed" (uncaught exception)
    user_input,  \* main(): the line input() returned last
    stdout       \* main(): the lines printed while handling that line

vars == <<heap, data, local, last_added, call, ret, pc, user_input, stdout>>

---------------------------------------------------------------------------
(* Bounds of the model.                                                    *)

\* longest string given to Phone(...) in SpecPhone
MaxLen == 11
\* phones one Record holds in SpecRecord
MaxPhones == 3
\* phones one Record holds in SpecBook
BookMaxPhones == 1
\* Record objects alive at once
MaxRecords == 3
\* years today ranges over in SpecBirthdays: 2023 .. 2022 + NumYears
NumYears == 2

---------------------------------------------------------------------------
(* Characters and strings.                                                 *)

\* U+00B2 SUPERSCRIPT TWO: a character str.isdigit() accepts that is not 0-9
SUP2 == "SUP2"
TAB == "TAB"

AsciiDigits == {"0", "1", "2", "3", "4", "5", "6", "7", "8", "9"}

DigitVal(c) ==
    CASE c = "0" -> 0 [] c = "1" -> 1 [] c = "2" -> 2 [] c = "3" -> 3
      [] c = "4" -> 4 [] c = "5" -> 5 [] c = "6" -> 6 [] c = "7" -> 7
      [] c = "8" -> 8 [] c = "9" -> 9

DigitChar(n) ==
    CASE n = 0 -> "0" [] n = 1 -> "1" [] n = 2 -> "2" [] n = 3 -> "3"
      [] n = 4 -> "4" [] n = 5 -> "5" [] n = 6 -> "6" [] n = 7 -> "7"
      [] n = 8 -> "8" [] n = 9 -> "9"

\* n copies of the character c
Rep(c, n) == [i \in 1..n |-> c]

---------------------------------------------------------------------------
(* Python values.                                                          *)

None == [cls |-> "NoneType"]
PyStr(s) == [cls |-> "str", value |-> s]
ValueError == [cls |-> "exc", type |-> "ValueError"]
IndexError == [cls |-> "exc", type |-> "IndexError"]
isinstance(x, c) == x.cls = c
IsExc(x) == x.cls = "exc"
\* a list
List(items) == [cls |-> "list", items |-> items]
\* a piece of printed text: a literal of the program
Lit(text) == [cls |-> "lit", text |-> text]

\* str.isdigit(): at least one character, and every character is a digit
\* (Unicode Numeric_Type Digit or Decimal, so SUP2 is one)
isdigit(s) == s # <<>> /\ \A i \in 1..Len(s) : s[i] \in AsciiDigits \cup {SUP2}

\* str.isspace() of one character, as str.split() uses it
IsSpace(c) == c \in {" ", TAB}


---------------------------------------------------------------------------
(* datetime.date, as the standard library computes it.  A date is          *)
(* [year, month, day]; toordinal() counts days from 0001-01-01 = 1.        *)

_is_leap(year) == year % 4 = 0 /\ (year % 100 # 0 \/ year % 400 = 0)

_DAYS_IN_MONTH == <<31, 28, 31, 30, 31, 30, 31, 31, 30, 31, 30, 31>>

_days_in_month(year, month) ==
    IF month = 2 /\ _is_leap(year) THEN 29 ELSE _DAYS_IN_MONTH[month]

RECURSIVE _days_before_month(_, _)
_days_before_month(year, month) ==
    IF month = 1 THEN 0
    ELSE _days_before_month(year, month - 1) + _days_in_month(year, month - 1)

_days_before_year(year) ==
    LET y == year - 1 IN y * 365 + (y \div 4) - (y \div 100) + (y \div 400)

\* date(year, month, day): the constructor's range checks
ValidDate(year, month, day) ==
    /\ year \in 1..9999
    /\ month \in 1..12
    /\ day \in 1.._days_in_month(year, month)

Date(year, month, day) ==
    [cls |-> "date", year |-> year, month |-> month, day |-> day]

toordinal(d) ==
    _days_before_year(d.year) + _days_before_month(d.year, d.month) + d.day

\* date.fromordinal(n)
fromordinal(ord) ==
    LET n0 == ord - 1
        n400 == n0 \div 146097
        r400 == n0 % 146097
        n100 == r400 \div 36524
        r100 == r400 % 36524
        n4 == r100 \div 1461
        r4 == r100 % 1461
        n1 == r4 \div 365
        n == r4 % 365
        year == n400 * 400 + 1 + n100 * 100 + n4 * 4 + n1
    IN  IF n1 = 4 \/ n100 = 4 THEN Date(year - 1, 12, 31)
        ELSE LET month == CHOOSE m \in 1..12 :
                     /\ _days_before_month(year, m) <= n
                     /\ n < _days_before_month(year, m) + _days_in_month(year, m)
             IN Date(year, month, n - _days_before_month(year, month) + 1)

\* date.weekday(): Monday is 0, Sunday is 6
weekday(d) == (toordinal(d) + 6) % 7

\* d.replace(year=y): builds date(y, d.month, d.day), which raises ValueError
\* when that day does not exist in year y
replace_year(d, y) ==
    IF ValidDate(y, d.month, d.day) THEN Date(y, d.month, d.day) ELSE ValueError

\* a < b on dates
date_lt(a, b) ==
    \/ a.year < b.year
    \/ a.year = b.year /\ a.month < b.month
    \/ a.year = b.year /\ a.month = b.month /\ a.day < b.day

\* (a - b).days
days_between(a, b) == toordinal(a) - toordinal(b)

\* d + timedelta(days=n)
plus_days(d, n) == fromordinal(toordinal(d) + n)

TwoDigits(n) == <<DigitChar(n \div 10), DigitChar(n % 10)>>

\* d.strftime('%d.%m.%Y')
strftime(d) ==
    TwoDigits(d.day) \o <<".">> \o TwoDigits(d.month) \o <<".">>
        \o TwoDigits(d.year \div 100) \o TwoDigits(d.year % 100)

\* the number a string of ASCII digits denotes
RECURSIVE ToInt(_)
ToInt(s) ==
    IF s = <<>> THEN 0
    ELSE 10 * ToInt(SubSeq(s, 1, Len(s) - 1)) + DigitVal(s[Len(s)])

AllAsciiDigits(s) == \A i \in 1..Len(s) : s[i] \in AsciiDigits

\* the directive %d: 3[0-1] | [1-2]\d | 0[1-9] | [1-9] | " "[1-9]
MatchesDay(s) ==
    \/ Len(s) = 1 /\ s[1] \in AsciiDigits \ {"0"}
    \/ Len(s) = 2 /\ s[1] = "3" /\ s[2] \in {"0", "1"}
    \/ Len(s) = 2 /\ s[1] \in {"1", "2"} /\ s[2] \in AsciiDigits
    \/ Len(s) = 2 /\ s[1] \in {"0", " "} /\ s[2] \in AsciiDigits \ {"0"}

\* the directive %m: 1[0-2] | 0[1-9] | [1-9]
MatchesMonth(s) ==
    \/ Len(s) = 1 /\ s[1] \in AsciiDigits \ {"0"}
    \/ Len(s) = 2 /\ s[1] = "1" /\ s[2] \in {"0", "1", "2"}
    \/ Len(s) = 2 /\ s[1] = "0" /\ s[2] \in AsciiDigits \ {"0"}

\* the directive %Y: \d\d\d\d
MatchesYear(s) == Len(s) = 4 /\ AllAsciiDigits(s)

\* datetime.strptime(s, '%d.%m.%Y').date(): the date, or ValueError when s
\* does not match the format or names no day of the calendar
strptime(s) ==
    LET dots == {i \in 1..Len(s) : s[i] = "."}
    IN  IF Cardinality(dots) # 2 THEN ValueError
        ELSE LET p1 == CHOOSE i \in dots : \A j \in dots : i <= j
                 p2 == CHOOSE i \in dots : \A j \in dots : j <= i
                 ds == SubSeq(s, 1, p1 - 1)
                 ms == SubSeq(s, p1 + 1, p2 - 1)
                 ys == SubSeq(s, p2 + 1, Len(s))
                 dv == ToInt(SelectSeq(ds, LAMBDA c : c # " "))
             IN  IF ~(MatchesDay(ds) /\ MatchesMonth(ms) /\ MatchesYear(ys))
                 THEN ValueError
                 ELSE IF ~ValidDate(ToInt(ys), ToInt(ms), dv) THEN ValueError
                 ELSE Date(ToInt(ys), ToInt(ms), dv)

---------------------------------------------------------------------------
(* The fields.                                                             *)

Name(value) == [cls |-> "Name", value |-> value]

\* Phone.__init__
Phone(value) ==
    IF ~isdigit(value) \/ Len(value) # 10 THEN ValueError
    ELSE [cls |-> "Phone", value |-> value]

\* Birthday.__init__; value holds the parsed day (its time of day is 00:00)
Birthday(value) ==
    LET parsed == strptime(value)
    IN  IF IsExc(parsed) THEN ValueError
        ELSE [cls |-> "Birthday", value |-> parsed]

\* Field.__str__
str(field) == field.value

---------------------------------------------------------------------------
(* Record.  A method is an operator from the object's value (and the       *)
(* arguments) to [self |-> the object afterwards, ret |-> the result].     *)

Record(name) ==
    [cls |-> "Record", name |-> Name(name), phones |-> <<>>, birthday |-> None]

Returns(self, value) == [self |-> self, ret |-> value]

add_phone(self, phone) ==
    IF ~isinstance(phone, "Phone") THEN Returns(self, ValueError)
    ELSE Returns([self EXCEPT !.phones = Append(self.phones, phone)], None)

add_birthday(self, birthday) ==
    IF ~isinstance(birthday, "Birthday") THEN Returns(self, ValueError)
    ELSE Returns([self EXCEPT !.birthday = birthday], None)

\* remove_phone dropping only the first match
remove_phone_first_only(self, phone) ==
    LET hits == {i \in 1..Len(self.phones) : str(self.phones[i]) = phone}
        first == CHOOSE i \in hits : \A j \in hits : i <= j
    IN  IF hits = {} THEN Returns(self, None)
        ELSE Returns([self EXCEPT !.phones =
                         SubSeq(self.phones, 1, first - 1)
                             \o SubSeq(self.phones, first + 1, Len(self.phones))],
                     None)

remove_phone(self, phone) ==
    Returns([self EXCEPT !.phones = SelectSeq(self.phones, LAMBDA p : str(p) # phone)],
            None)

\* edit_phone without the removal
edit_phone_keeps_old(self, old_phone, new_phone) == add_phone(self, new_phone)

edit_phone(self, old_phone, new_phone) ==
    add_phone(remove_phone(self, old_phone).self, new_phone)

find_phone(self, phone) ==
    LET hits == {i \in 1..Len(self.phones) : str(self.phones[i]) = phone}
    IN  IF hits = {} THEN Returns(self, None)
        ELSE Returns(self, self.phones[CHOOSE i \in hits : \A j \in hits : i <= j])

\* '; '.join(str(p) for p in self.phones)
RECURSIVE join_phones(_)
join_phones(phones) ==
    IF phones = <<>> THEN <<>>
    ELSE IF Len(phones) = 1 THEN str(phones[1])
    ELSE str(phones[1]) \o <<";", " ">> \o join_phones(Tail(phones))

\* Record.__str__, as the segments of the f-string
Record__str__(self) ==
    <<Lit("Contact name: "), PyStr(str(self.name)), Lit(", phones: "),
      PyStr(join_phones(self.phones)), Lit(", birthday: "),
      IF self.birthday # None THEN PyStr(strftime(self.birthday.value))
      ELSE Lit("Not Set")>>

---------------------------------------------------------------------------
(* AddressBook: a UserDict.  data is the dict in insertion order, a        *)
(* sequence of [key, val]; val is a reference to a Record object in heap.  *)

Free == [cls |-> "free"]
Ref(id) == [cls |-> "ref", id |-> id]

Keys(d) == {d[i].key : i \in 1..Len(d)}

\* d.get(key)
dict_get(d, key) ==
    IF key \in Keys(d) THEN (d[CHOOSE i \in 1..Len(d) : d[i].key = key]).val
    ELSE None

\* d[key] = val: an existing key keeps its place
dict_set(d, key, val) ==
    IF key \in Keys(d)
    THEN [i \in 1..Len(d) |-> IF d[i].key = key THEN [key |-> key, val |-> val] ELSE d[i]]
    ELSE Append(d, [key |-> key, val |-> val])

\* del d[key]
dict_del(d, key) == SelectSeq(d, LAMBDA e : e.key # key)

\* add_record that leaves an existing entry of the same name in place
add_record_keeps_first(d, h, record) ==
    IF h[record.id].name.value \in Keys(d) THEN d
    ELSE dict_set(d, h[record.id].name.value, record)

\* AddressBook.add_record: record is a reference
add_record(d, h, record) == dict_set(d, h[record.id].name.value, record)

\* AddressBook.find
find(d, name) == dict_get(d, name)

\* AddressBook.delete
delete(d, name) == IF name \in Keys(d) THEN dict_del(d, name) ELSE d

\* if 0 <= days_until_birthday <= 7
in_window(days_until_birthday) ==
    0 <= days_until_birthday /\ days_until_birthday <= 7

\* congratulation_day with the shift one day short
congratulation_day_short(birthday_this_year) ==
    IF weekday(birthday_this_year) \in {5, 6}
    THEN plus_days(birthday_this_year, 6 - weekday(birthday_this_year))
    ELSE birthday_this_year

\* the day congratulated: the Monday after a Saturday or Sunday, else the day
congratulation_day(birthday_this_year) ==
    IF weekday(birthday_this_year) \in {5, 6}
    THEN plus_days(birthday_this_year, 7 - weekday(birthday_this_year))
    ELSE birthday_this_year

\* the body of the loop of get_upcoming_birthdays for one record: the entries
\* it appends (none or one), or the exception it raises
upcoming_of(record, today) ==
    IF record.birthday = None THEN List(<<>>)
    ELSE
      LET birthday_date == record.birthday.value
          this_year == replace_year(birthday_date, today.year)
      IN  IF IsExc(this_year) THEN this_year
          ELSE
            LET birthday_this_year ==
                    IF date_lt(this_year, today)
                    THEN replace_year(this_year, today.year + 1)
                    ELSE this_year
            IN  IF IsExc(birthday_this_year) THEN birthday_this_year
                ELSE
                  LET days_until_birthday == days_between(birthday_this_year, today)
                      congradulation_date ==
                          strftime(congratulation_day(birthday_this_year))
                  IN  IF in_window(days_until_birthday)
                      THEN List(<<[name |-> record.name.value,
                                   congradulation_date |-> congradulation_date]>>)
                      ELSE List(<<>>)

\* AddressBook.get_upcoming_birthdays: the list, or the exception raised
RECURSIVE upcoming_from(_, _, _, _)
upcoming_from(d, h, today, upcoming_birthdays) ==
    IF d = <<>> THEN upcoming_birthdays
    ELSE LET one == upcoming_of(h[Head(d).val.id], today)
         IN  IF IsExc(one) THEN one
             ELSE upcoming_from(Tail(d), h, today,
                                List(upcoming_birthdays.items \o one.items))

get_upcoming_birthdays(d, h, today) == upcoming_from(d, h, today, List(<<>>))

---------------------------------------------------------------------------
(* What the specifications share.                                          *)

RecordIds == 1..MaxRecords
NameA == <<"a">>
NameB == <<"b">>
Names == {NameA, NameB}

NoCall == [op |-> "none"]
EmptyHeap == [i \in RecordIds |-> Free]
NoHistory == [n \in Names |-> None]

\* the objects of heap that data refers to
Referenced(d) == {d[i].val.id : i \in 1..Len(d)}

---------------------------------------------------------------------------
(* SpecBirthdays: get_upcoming_birthdays on a directory of one or two      *)
(* records, for every today of the years 2023 .. 2022 + NumYears.          *)

TodayYears == 2023..(2022 + NumYears)

Todays ==
    {t \in {Date(y, m, d) : y \in TodayYears, m \in 1..12, d \in 1..31} :
        ValidDate(t.year, t.month, t.day)}

\* the birthdays of record a: every day of five months of the leap year 2000
BirthdaysA ==
    {t \in {Date(2000, m, d) : m \in {1, 2, 3, 6, 12}, d \in 1..31} :
        ValidDate(t.year, t.month, t.day)}

\* the birthdays of record b, when the directory holds it
BirthdaysB == {Date(2000, 2, 29), Date(1990, 6, 15)}

\* Record(name) with the birthday Birthday(text) added
RecordBorn(name, text) == add_birthday(Record(name), Birthday(text)).self

InitBirthdays ==
    /\ \E a \in {Record(NameA)} \cup {RecordBorn(NameA, strftime(d)) : d \in BirthdaysA} :
       \E b \in {Free} \cup {RecordBorn(NameB, strftime(d)) : d \in BirthdaysB} :
          /\ heap = [i \in RecordIds |-> IF i = 1 THEN a ELSE IF i = 2 THEN b ELSE Free]
          /\ data = IF b = Free THEN add_record(<<>>, heap, Ref(1))
                    ELSE add_record(add_record(<<>>, heap, Ref(1)), heap, Ref(2))
    /\ local = None
    /\ last_added = NoHistory
    /\ call = NoCall
    /\ ret = None
    /\ pc = "idle"
    /\ user_input = <<>>
    /\ stdout = <<>>

\* book.get_upcoming_birthdays() on a day datetime.today() returns
GetUpcomingBirthdays ==
    /\ call = NoCall
    /\ \E today \in Todays :
          /\ call' = [op |-> "get_upcoming_birthdays", today |-> today]
          /\ ret' = get_upcoming_birthdays(data, heap, today)
    /\ UNCHANGED <<heap, data, local, last_added, pc, user_input, stdout>>

NextBirthdays == GetUpcomingBirthdays

SpecBirthdays == InitBirthdays /\ [][NextBirthdays]_vars

---------------------------------------------------------------------------
(* Properties of get_upcoming_birthdays (SpecBirthdays).                   *)

Called(op) == call.op = op

\* the Record object the directory holds at place i
RecordAt(i) == heap[data[i].val.id]

\* the k in 0..7 for which today + k days has the month and day of birthday
OffsetsInWindow(birthday, today) ==
    {k \in 0..7 : LET d == plus_days(today, k)
                  IN  d.month = birthday.month /\ d.day = birthday.day}

\* the weekday counted from 10.06.2024, a Monday
WeekdayFromMonday(d) == (toordinal(d) - toordinal(Date(2024, 6, 10))) % 7

LeapDayHeld == \E i \in 1..Len(data) :
    /\ RecordAt(i).birthday # None
    /\ RecordAt(i).birthday.value.month = 2
    /\ RecordAt(i).birthday.value.day = 29

\* C1: get_upcoming_birthdays returns an entry for a record if and only if the
\* record has a birthday whose next occurrence on or after today is 0 to 7 days
\* after today; no birthday means no entry, a birthday today is included.
C1_EntryIffInWindow ==
    Called("get_upcoming_birthdays") =>
        /\ isinstance(ret, "list")
        /\ \A i \in 1..Len(data) :
              (\E j \in 1..Len(ret.items) : ret.items[j].name = RecordAt(i).name.value)
              <=> /\ RecordAt(i).birthday # None
                  /\ OffsetsInWindow(RecordAt(i).birthday.value, call.today) # {}

\* C2: every entry returned carries, as DD.MM.YYYY, the occurrence itself when it
\* falls on Monday to Friday and the Monday right after it when it falls on a
\* Saturday or Sunday; no date reported is a Saturday or Sunday.
C2_WeekendRollsToMonday ==
    (Called("get_upcoming_birthdays") /\ isinstance(ret, "list")) =>
        \A j \in 1..Len(ret.items) :
            LET entry == ret.items[j]
                record == heap[find(data, entry.name).id]
                shown == strptime(entry.congradulation_date)
                ks == OffsetsInWindow(record.birthday.value, call.today)
                occurrence == plus_days(call.today, CHOOSE k \in ks : TRUE)
            IN  /\ record.birthday # None
                /\ ks # {}
                /\ ~IsExc(shown)
                /\ entry.congradulation_date = strftime(shown)
                /\ WeekdayFromMonday(shown) \notin {5, 6}
                /\ IF WeekdayFromMonday(occurrence) \in {5, 6}
                   THEN /\ WeekdayFromMonday(shown) = 0
                        /\ days_between(shown, occurrence) \in {1, 2}
                   ELSE shown = occurrence

\* today is 10.06.2024 and the birthday of 15.06, a Saturday, is reported as 17.06.2024
C2_Witness ==
    /\ Called("get_upcoming_birthdays")
    /\ call.today = Date(2024, 6, 10)
    /\ isinstance(ret, "list")
    /\ \E j \in 1..Len(ret.items) :
          /\ ret.items[j].congradulation_date
                 = <<"1", "7", ".", "0", "6", ".", "2", "0", "2", "4">>
          /\ LET born == heap[find(data, ret.items[j].name).id].birthday.value
             IN  born.month = 6 /\ born.day = 15

\* C9: with a 29 February birthday in the directory and a year to re-base onto
\* that is not a leap year, get_upcoming_birthdays completes and returns a list.
C9_LeapDayResolves ==
    (/\ Called("get_upcoming_birthdays")
     /\ LeapDayHeld
     /\ \/ ~_is_leap(call.today.year)
        \/ date_lt(Date(call.today.year, 2, 29), call.today)
           /\ ~_is_leap(call.today.year + 1))
    => isinstance(ret, "list")

---------------------------------------------------------------------------
(* SpecPhone: Phone(value) on strings of up to MaxLen characters.          *)

PhoneChars == {"0", "7", "9", "a", " ", ".", "-", SUP2}

\* n copies of one character, and the same with one place changed
PhoneTexts ==
    {Rep(c, n) : c \in PhoneChars, n \in 0..MaxLen} \cup
    {[Rep(c, n) EXCEPT ![i] = x] :
        c \in PhoneChars, x \in PhoneChars, n \in 1..MaxLen, i \in 1..MaxLen} 

InitIdle ==
    /\ heap = EmptyHeap
    /\ data = <<>>
    /\ local = None
    /\ last_added = NoHistory
    /\ call = NoCall
    /\ ret = None
    /\ pc = "idle"
    /\ user_input = <<>>
    /\ stdout = <<>>

InitPhone == InitIdle

\* Phone(value)
NewPhone ==
    /\ call = NoCall
    /\ \E value \in PhoneTexts :
          /\ call' = [op |-> "Phone", value |-> value]
          /\ ret' = Phone(value)
    /\ UNCHANGED <<heap, data, local, last_added, pc, user_input, stdout>>

NextPhone == NewPhone

SpecPhone == InitPhone /\ [][NextPhone]_vars

\* C5: Phone construction succeeds if and only if the string is exactly ten of
\* the digits 0-9; for every other string it fails with a validation error.
C5_PhoneIffTenAsciiDigits ==
    Called("Phone") =>
        IF Len(call.value) = 10 /\ AllAsciiDigits(call.value)
        THEN isinstance(ret, "Phone") /\ ret.value = call.value
        ELSE ret = ValueError

---------------------------------------------------------------------------
(* SpecRecord: the methods of one Record, held in heap[1].                 *)

Ones == Rep("1", 10)
Twos == Rep("2", 10)
Threes == Rep("3", 10)
\* strings Phone rejects
Nine == Rep("1", 9)
Lettered == [Ones EXCEPT ![10] = "a"]

RecordPhoneTexts == {Ones, Twos, Threes, Nine, Lettered}
BirthdayTexts ==
    {strftime(Date(1990, 6, 15)), strftime(Date(2000, 2, 29)),
     strftime(Date(2001, 2, 28)) \o <<"0">>, <<"3", "1", ".", "0", "2", ".", "2", "0", "0", "0">>}

Self == heap[1]

InitRecord ==
    /\ heap = [EmptyHeap EXCEPT ![1] = Record(NameA)]
    /\ data = <<>>
    /\ local = Ref(1)
    /\ last_added = NoHistory
    /\ call = NoCall
    /\ ret = None
    /\ pc = "idle"
    /\ user_input = <<>>
    /\ stdout = <<>>

\* what a method call leaves behind: the object, the call and the result
MethodStep(op, args, result) ==
    /\ heap' = [heap EXCEPT ![1] = result.self]
    /\ call' = [op |-> op, args |-> args, before |-> Self]
    /\ ret' = result.ret
    /\ UNCHANGED <<data, local, last_added, pc, user_input, stdout>>

\* record.add_phone(Phone(text)): a text Phone rejects never reaches add_phone
AddPhone ==
    /\ Len(Self.phones) < MaxPhones
    /\ \E text \in RecordPhoneTexts :
          LET phone == Phone(text)
          IN  IF IsExc(phone)
              THEN MethodStep("Phone", <<text>>, Returns(Self, phone))
              ELSE MethodStep("add_phone", <<phone>>, add_phone(Self, phone))

\* record.add_phone(text): the argument is a str, not a Phone
AddPhoneText ==
    \E text \in RecordPhoneTexts :
        MethodStep("add_phone", <<PyStr(text)>>, add_phone(Self, PyStr(text)))

\* record.remove_phone(text)
RemovePhone ==
    \E text \in RecordPhoneTexts :
        MethodStep("remove_phone", <<text>>, remove_phone(Self, text))

\* record.edit_phone(old, Phone(text))
EditPhone ==
    \E old \in RecordPhoneTexts, text \in RecordPhoneTexts :
        LET phone == Phone(text)
        IN  /\ Len(remove_phone(Self, old).self.phones) < MaxPhones
            /\ IF IsExc(phone)
               THEN MethodStep("Phone", <<text>>, Returns(Self, phone))
               ELSE MethodStep("edit_phone", <<old, phone>>, edit_phone(Self, old, phone))

\* record.find_phone(text)
FindPhone ==
    \E text \in RecordPhoneTexts :
        MethodStep("find_phone", <<text>>, find_phone(Self, text))

\* record.add_birthday(Birthday(text))
AddBirthday ==
    \E text \in BirthdayTexts :
        LET birthday == Birthday(text)
        IN  IF IsExc(birthday)
            THEN MethodStep("Birthday", <<text>>, Returns(Self, birthday))
            ELSE MethodStep("add_birthday", <<birthday>>, add_birthday(Self, birthday))

NextRecord ==
    \/ AddPhone
    \/ AddPhoneText
    \/ RemovePhone
    \/ EditPhone
    \/ FindPhone
    \/ AddBirthday

SpecRecord == InitRecord /\ [][NextRecord]_vars

HeldTexts(record) == {str(record.phones[i]) : i \in 1..Len(record.phones)}

\* C3 as stated: for a record that contains old and any valid phone new, after
\* edit_phone(old, new), find_phone(new) returns the new phone and
\* find_phone(old) returns None.
C3_EditThenFind_AnyNew ==
    (Called("edit_phone") /\ call.args[1] \in HeldTexts(call.before)) =>
        /\ find_phone(Self, str(call.args[2])).ret = call.args[2]
        /\ find_phone(Self, call.args[1]).ret = None

\* C3, amended: the same for any valid phone new whose digits differ from old.
C3_EditThenFind ==
    (/\ Called("edit_phone")
     /\ call.args[1] \in HeldTexts(call.before)
     /\ str(call.args[2]) # call.args[1]) =>
        /\ ret = None
        /\ find_phone(Self, str(call.args[2])).ret = call.args[2]
        /\ find_phone(Self, call.args[1]).ret = None

\* old was held twice, beside another phone, and was edited to a new number
C3_Witness ==
    /\ Called("edit_phone")
    /\ Cardinality({i \in 1..Len(call.before.phones) :
                       str(call.before.phones[i]) = call.args[1]}) = 2
    /\ Len(call.before.phones) = 3
    /\ str(call.args[2]) \notin HeldTexts(call.before)
    /\ find_phone(Self, str(call.args[2])).ret = call.args[2]

\* the places of phones whose string form is not text
Kept(phones, text) == {i \in 1..Len(phones) : str(phones[i]) # text}

\* C10: remove_phone(text) removes every phone whose string form equals text and
\* nothing else: the others stay, in their order; name and birthday are
\* unchanged; with no match the record is unchanged; no error is raised.
C10_RemovePhoneFrame ==
    Called("remove_phone") =>
        LET text == call.args[1]
            before == call.before
            kept == Kept(before.phones, text)
        IN  /\ ret = None
            /\ text \notin HeldTexts(Self)
            /\ Len(Self.phones) = Cardinality(kept)
            /\ \A k \in 1..Len(Self.phones) :
                  Self.phones[k] =
                      before.phones[CHOOSE i \in kept :
                                        Cardinality({j \in kept : j <= i}) = k]
            /\ Self.name = before.name
            /\ Self.birthday = before.birthday
            /\ (text \notin HeldTexts(before) => Self = before)

\* a text held twice was removed from a record with a birthday; another phone stays
C10_Witness ==
    /\ Called("remove_phone")
    /\ Cardinality({i \in 1..Len(call.before.phones) :
                       str(call.before.phones[i]) = call.args[1]}) = 2
    /\ Len(Self.phones) = 1
    /\ Self.birthday # None

---------------------------------------------------------------------------
(* SpecBook: add_record, find and delete on a directory, by a caller that  *)
(* holds one reference (local) to a Record it built or found.              *)

\* the objects still referred to, the others freed
Release(h, d, loc) ==
    [i \in RecordIds |->
        IF i \in Referenced(d) \/ (loc # None /\ loc.id = i) THEN h[i] ELSE Free]

FreeIds(h) == {i \in RecordIds : h[i] = Free}

InitBook == InitIdle

\* local = Record(name)
NewRecord ==
    \E name \in Names :
        LET h == Release(heap, data, None)
            id == CHOOSE i \in FreeIds(h) : \A j \in FreeIds(h) : i <= j
        IN  /\ FreeIds(h) # {}
            /\ heap' = [h EXCEPT ![id] = Record(name)]
            /\ local' = Ref(id)
            /\ call' = [op |-> "Record", name |-> name]
            /\ ret' = None
            /\ UNCHANGED <<data, last_added, pc, user_input, stdout>>

\* local.add_phone(Phone(text))
LocalAddPhone ==
    /\ local # None
    /\ Len(heap[local.id].phones) < BookMaxPhones
    /\ \E text \in {Ones, Twos} :
          /\ heap' = [heap EXCEPT ![local.id] = add_phone(@, Phone(text)).self]
          /\ call' = [op |-> "add_phone", text |-> text]
          /\ ret' = None
    /\ UNCHANGED <<data, local, last_added, pc, user_input, stdout>>

\* local.add_birthday(Birthday('15.06.1990'))
LocalAddBirthday ==
    /\ local # None
    /\ heap' = [heap EXCEPT ![local.id] =
                   add_birthday(@, Birthday(strftime(Date(1990, 6, 15)))).self]
    /\ call' = [op |-> "add_birthday"]
    /\ ret' = None
    /\ UNCHANGED <<data, local, last_added, pc, user_input, stdout>>

\* book.add_record(local)
AddRecord ==
    /\ local # None
    /\ LET name == heap[local.id].name.value
           replaced == find(data, name)
       IN  /\ data' = add_record(data, heap, local)
           /\ heap' = Release(heap, data', local)
           /\ last_added' = [last_added EXCEPT ![name] = local]
           /\ call' = [op |-> "add_record", record |-> local, passed |-> heap[local.id],
                       replaced |-> IF replaced = None THEN None ELSE heap[replaced.id]]
           /\ ret' = None
    /\ UNCHANGED <<local, pc, user_input, stdout>>

\* local = book.find(name)
Find ==
    \E name \in Names :
        /\ ret' = find(data, name)
        /\ local' = ret'
        /\ heap' = Release(heap, data, local')
        /\ call' = [op |-> "find", name |-> name]
        /\ UNCHANGED <<data, last_added, pc, user_input, stdout>>

\* book.delete(name)
Delete ==
    \E name \in Names :
        /\ data' = delete(data, name)
        /\ heap' = Release(heap, data', local)
        /\ last_added' = [last_added EXCEPT ![name] = None]
        /\ call' = [op |-> "delete", name |-> name, before |-> data]
        /\ ret' = None
        /\ UNCHANGED <<local, pc, user_input, stdout>>

NextBook ==
    \/ NewRecord
    \/ LocalAddPhone
    \/ LocalAddBirthday
    \/ AddRecord
    \/ Find
    \/ Delete

SpecBook == InitBook /\ [][NextBook]_vars

\* C4: after any sequence of add_record and delete, find(name) returns the
\* record last added under the name and not deleted since (the record passed,
\* as it was passed: a full replacement), and None when the name was never
\* added or was deleted after; delete of a missing name changes nothing.
C4_FindReturnsLastAdded ==
    /\ \A name \in Names :
          /\ find(data, name) = last_added[name]
          /\ find(data, name) # None => heap[find(data, name).id].name.value = name
    /\ Called("find") => ret = last_added[call.name]
    /\ Called("add_record") =>
          /\ find(data, call.passed.name.value) = call.record
          /\ heap[call.record.id] = call.passed
    /\ Called("delete") =>
          /\ find(data, call.name) = None
          /\ (call.name \notin Keys(call.before) => data = call.before)

\* a record without phone or birthday was added over one with both
C4_Witness ==
    /\ Called("add_record")
    /\ call.replaced # None
    /\ call.replaced.phones # <<>>
    /\ call.replaced.birthday # None
    /\ call.passed.phones = <<>>
    /\ call.passed.birthday = None
    /\ Len(data) = 2

---------------------------------------------------------------------------
(* main(): the command loop.  One iteration reads a line and handles it;   *)
(* its outcome is [data, heap, stdout, raised, exits].                     *)

\* str.split() without arguments: the words between runs of whitespace
RECURSIVE split_acc(_, _, _)
split_acc(s, word, words) ==
    IF s = <<>> THEN (IF word = <<>> THEN words ELSE Append(words, word))
    ELSE IF IsSpace(Head(s))
         THEN split_acc(Tail(s), <<>>, IF word = <<>> THEN words ELSE Append(words, word))
         ELSE split_acc(Tail(s), Append(word, Head(s)), words)

split(s) == split_acc(s, <<>>, <<>>)

\* the strings the loop compares the command with
W_add == <<"a", "d", "d">>
W_change == <<"c", "h", "a", "n", "g", "e">>
W_phone == <<"p", "h", "o", "n", "e">>
W_all == <<"a", "l", "l">>
W_birthday == <<"b", "i", "r", "t", "h", "d", "a", "y">>
W_show == <<"s", "h", "o", "w">>
W_birthdays == <<"b", "i", "r", "t", "h", "d", "a", "y", "s">>
W_hello == <<"h", "e", "l", "l", "o">>
W_close == <<"c", "l", "o", "s", "e">>
W_exit == <<"e", "x", "i", "t">>
W_foo == <<"f", "o", "o">>
W_change_phone == W_change \o <<" ">> \o W_phone
W_add_birthday == W_add \o <<" ">> \o W_birthday
W_show_birthday == W_show \o <<" ">> \o W_birthday

\* an iteration that printed lines and goes on
Out(d, h, lines) ==
    [data |-> d, heap |-> h, stdout |-> lines, raised |-> None, exits |-> FALSE]

\* an iteration an exception leaves
Raise(d, h, lines, exc) ==
    [data |-> d, heap |-> h, stdout |-> lines, raised |-> exc, exits |-> FALSE]

\* str(e) of the ValueError a field raised
Phone_message == <<Lit("Phone number must contain 10 digits.")>>
Birthday_message == <<Lit("Invalid date format. Use DD.MM.YYYY")>>

Contact_not_found(name) == <<Lit("Contact "), PyStr(name), Lit(" not found.")>>

\* elif command == 'add'
cmd_add(args, d, h) ==
    IF Len(args) # 2 THEN Out(d, h, <<<<Lit("Usage: add [name] [phone number]")>>>>)
    ELSE
      LET name == args[1]
          phone == args[2]
          made == Phone(phone)
          id == CHOOSE i \in FreeIds(h) : \A j \in FreeIds(h) : i <= j
          h1 == [h EXCEPT ![id] = add_phone(Record(name), made).self]
          d1 == add_record(d, h1, Ref(id))
      IN  IF IsExc(made) THEN Out(d, h, <<Phone_message>>)
          ELSE Out(d1, Release(h1, d1, None),
                   <<<<Lit("Contact "), PyStr(name), Lit(" with phone "), PyStr(phone),
                       Lit(" added.")>>>>)

\* elif command == 'change phone'
cmd_change_phone(args, d, h) ==
    IF Len(args) # 2
    THEN Out(d, h, <<<<Lit("Usage: change phone [name] [new phone number]")>>>>)
    ELSE
      LET name == args[1]
          new_phone == args[2]
          record == find(d, name)
      IN  IF record = None THEN Out(d, h, <<Contact_not_found(name)>>)
          ELSE IF h[record.id].phones = <<>> THEN Raise(d, h, <<>>, IndexError)
          ELSE
            LET old_phone == str(h[record.id].phones[1])
                made == Phone(new_phone)
            IN  IF IsExc(made) THEN Out(d, h, <<Phone_message>>)
                ELSE Out(d, [h EXCEPT ![record.id] = edit_phone(@, old_phone, made).self],
                         <<<<Lit("Phone number for "), PyStr(name), Lit(" changed from "),
                             PyStr(old_phone), Lit(" to "), PyStr(new_phone), Lit(".")>>>>)

\* elif command == 'phone'
cmd_phone(args, d, h) ==
    IF Len(args) # 1 THEN Out(d, h, <<<<Lit("Usage: phone [name]")>>>>)
    ELSE
      LET name == args[1]
          record == find(d, name)
      IN  IF record = None THEN Out(d, h, <<Contact_not_found(name)>>)
          ELSE IF h[record.id].phones # <<>>
          THEN Out(d, h, <<<<Lit("Phone number for "), PyStr(name), Lit(": "),
                             PyStr(str(h[record.id].phones[1]))>>>>)
          ELSE Out(d, h, <<<<Lit("No phone number found for "), PyStr(name), Lit(".")>>>>)

\* elif command == 'all'
cmd_all(args, d, h) ==
    IF d # <<>>
    THEN Out(d, h, <<<<Lit("All contacts:")>>>>
                       \o [i \in 1..Len(d) |-> Record__str__(h[d[i].val.id])])
    ELSE Out(d, h, <<<<Lit("No contacts found.")>>>>)

\* the decorator input_error: a ValueError, KeyError or IndexError the handler
\* raises is caught, and a message is returned that main does not print
input_error(outcome) ==
    IF outcome.raised \in {ValueError, IndexError, [cls |-> "exc", type |-> "KeyError"]}
    THEN [outcome EXCEPT !.raised = None]
    ELSE outcome

\* add_birthday(args, book)
handle_add_birthday(args, d, h) ==
    input_error(
      IF Len(args) # 2
      THEN Out(d, h, <<<<Lit("Usage: add birthday [name] [birthdaydate]")>>>>)
      ELSE
        LET name == args[1]
            birthday == args[2]
            record == find(d, name)
            made == Birthday(birthday)
        IN  IF record = None THEN Out(d, h, <<Contact_not_found(name)>>)
            ELSE IF IsExc(made) THEN Out(d, h, <<Birthday_message>>)
            ELSE Out(d, [h EXCEPT ![record.id] = add_birthday(@, made).self],
                     <<<<Lit("Birthday added for "), PyStr(name), Lit(".")>>>>))

\* show_birthday(args, book)
handle_show_birthday(args, d, h) ==
    input_error(
      IF Len(args) # 1 THEN Out(d, h, <<<<Lit("Usage: show birthday [name]")>>>>)
      ELSE
        LET name == args[1]
            record == find(d, name)
        IN  IF record = None THEN Out(d, h, <<Contact_not_found(name)>>)
            ELSE IF h[record.id].birthday # None
            THEN Out(d, h, <<<<PyStr(name), Lit(" birthday is on "),
                               PyStr(strftime(h[record.id].birthday.value)), Lit(".")>>>>)
            ELSE Out(d, h, <<<<Lit("No birthday set for "), PyStr(name), Lit(".")>>>>))

\* birthdays(args, book)
handle_birthdays(args, d, h, today) ==
    input_error(
      LET upcoming_birthdays == get_upcoming_birthdays(d, h, today)
      IN  IF IsExc(upcoming_birthdays) THEN Raise(d, h, <<>>, upcoming_birthdays)
          ELSE IF upcoming_birthdays.items # <<>>
          THEN Out(d, h, <<<<Lit("Upcoming birthdays for next week:")>>>>
                   \o [i \in 1..Len(upcoming_birthdays.items) |->
                         <<PyStr(upcoming_birthdays.items[i].name), Lit(" birthday is on "),
                           PyStr(upcoming_birthdays.items[i].congradulation_date),
                           Lit(".")>>])
          ELSE Out(d, h, <<<<Lit("No upcoming birthdays for next week.")>>>>))

\* the body of while True for the line user_input
main_iteration(line, d, h, today) ==
    LET words == split(line)
        command == Head(words)
        args == Tail(words)
    IN  IF words = <<>> THEN Raise(d, h, <<>>, ValueError)
        ELSE IF command \in {W_close, W_exit}
        THEN [Out(d, h, <<<<Lit("Good bye!")>>>>) EXCEPT !.exits = TRUE]
        ELSE IF command = W_hello THEN Out(d, h, <<<<Lit("How can I help you?")>>>>)
        ELSE IF command = W_add THEN cmd_add(args, d, h)
        ELSE IF command = W_change_phone THEN cmd_change_phone(args, d, h)
        ELSE IF command = W_phone THEN cmd_phone(args, d, h)
        ELSE IF command = W_all THEN cmd_all(args, d, h)
        ELSE IF command = W_add_birthday THEN handle_add_birthday(args, d, h)
        ELSE IF command = W_show_birthday THEN handle_show_birthday(args, d, h)
        ELSE IF command = W_birthdays THEN handle_birthdays(args, d, h, today)
        ELSE Out(d, h, <<<<Lit("Invalid command.")>>>>)

---------------------------------------------------------------------------
(* SpecMain: main() on the lines of MainLines.                             *)

\* the words joined by single spaces
RECURSIVE Line(_)
Line(words) ==
    IF Len(words) = 1 THEN words[1]
    ELSE words[1] \o <<" ">> \o Line(Tail(words))

\* ten characters str.isdigit() accepts
Sups == Rep(SUP2, 10)

MainPhoneTexts == {Ones, Twos, Sups, Nine, Lettered}
MainTodays == {Date(2024, 6, 10), Date(2023, 3, 1)}

MainLines ==
    {<<>>, <<" ">>, <<TAB, " ">>}
    \cup {W_hello, W_close, W_exit, W_all, W_birthdays, W_foo, W_add, W_phone}
    \cup {Line(<<W_add, n, p>>) : n \in Names, p \in MainPhoneTexts}
    \cup {<<" ", TAB>> \o W_add \o <<" ", " ">> \o NameA \o <<TAB>> \o Threes \o <<" ">>}
    \cup {Line(<<W_add, n>>) : n \in Names}
    \cup {Line(<<W_phone, n>>) : n \in Names}
    \cup {Line(<<W_change, W_phone, n, p>>) : n \in Names, p \in {Twos, Nine}}
    \cup {Line(<<W_add, W_birthday, n, t>>) : n \in Names, t \in BirthdayTexts}
    \cup {Line(<<W_show, W_birthday, n>>) : n \in Names}

InitMain ==
    /\ heap = EmptyHeap
    /\ data = <<>>
    /\ local = None
    /\ last_added = NoHistory
    /\ call = NoCall
    /\ ret = None
    /\ pc = "running"
    /\ user_input = <<>>
    /\ stdout = <<<<Lit("Welcome to the assistant bot!")>>>>

\* one turn of while True: input(), then the handling of the line
MainLoop ==
    /\ pc = "running"
    /\ \E line \in MainLines, today \in MainTodays :
          LET outcome == main_iteration(line, data, heap, today)
          IN  /\ user_input' = line
              /\ data' = outcome.data
              /\ heap' = outcome.heap
              /\ stdout' = outcome.stdout
              /\ pc' = IF outcome.raised # None THEN "crashed"
                       ELSE IF outcome.exits THEN "exited"
                       ELSE "running"
    /\ UNCHANGED <<local, last_added, call, ret>>

NextMain == MainLoop

SpecMain == InitMain /\ [][NextMain]_vars

---------------------------------------------------------------------------
(* Properties of the command loop (SpecMain).                              *)

\* C6: no input line is fatal: the loop handles every line, the empty line
\* included, and goes on reading; it ends only on close or exit.
C6_NoLineIsFatal ==
    /\ pc \in {"running", "exited"}
    /\ pc = "exited" => Head(split(user_input)) \in {W_close, W_exit}

\* C7: every command of the grammar reaches its operation: the line
\* add birthday <name> <DD.MM.YYYY>, for a name in the directory and a valid
\* date, sets the birthday of that record.
C7_AddBirthdayLineSetsBirthday ==
    LET words == split(user_input)
    IN  (/\ Len(words) = 4
         /\ words[1] = W_add
         /\ words[2] = W_birthday
         /\ find(data, words[3]) # None
         /\ ~IsExc(Birthday(words[4])))
        => heap[find(data, words[3]).id].birthday = Birthday(words[4])

\* C8: every phone of every record in the directory is a string of exactly ten
\* of the digits 0-9.
C8_StoredPhonesAreTenDigits ==
    \A i \in 1..Len(data) :
        \A k \in 1..Len(RecordAt(i).phones) :
            /\ Len(str(RecordAt(i).phones[k])) = 10
            /\ AllAsciiDigits(str(RecordAt(i).phones[k]))

===========================================================================
